---- MODULE Spec2Model ----
(***************************************************************************)
(* ccfxconstants.cpp: the two namespace-scope constants APPVERSION and     *)
(* PLATFORM_NAME.  The model follows one build configuration through       *)
(* preprocessing and the build, and the resulting process through load     *)
(* (zero and constant initialization), the dynamic initialization of the   *)
(* translation units in an unspecified order, and main with its reader     *)
(* threads.  Process teardown ends the run and is not modelled.            *)
(***************************************************************************)
EXTENDS Integers, Sequences, FiniteSets, TLC

VARIABLES flags,          \* the platform macros the build configuration defines
          phase,          \* "config", "build_failed", "built", "static_init", "main", "crashed"
          pp,             \* what preprocessing lines 8-18 produced
          image,          \* the string literal the binary initializes PLATFORM_NAME from
          APPVERSION,     \* the array object
          PLATFORM_NAME,  \* the std::string object
          inited,         \* translation units whose dynamic initializers have run
          threads,        \* reader threads started by main
          reads           \* completed reads: what each observed

vars == <<flags, phase, pp, image, APPVERSION, PLATFORM_NAME, inited, threads, reads>>

-----------------------------------------------------------------------------
(* Bounds *)

NumOtherTUs == 2
NumThreads == 2

-----------------------------------------------------------------------------
(* The build: lines 8-18 *)

PlatformFlags == {"OS_WIN32", "OS_UBUNTU", "OS_LINUX", "OS_MACOSX"}

Def(label) == [kind |-> "def", label |-> label]
ErrorDirective == [kind |-> "error", label |-> ""]

Group(dir, macro, body) == [dir |-> dir, macro |-> macro, body |-> body]

\* #else const std::string PLATFORM_NAME = ""; in place of #error
ConditionalSection_DefaultLabel ==
    << Group("if",   "OS_WIN32",  Def("Windows XP x86")),
       Group("elif", "OS_UBUNTU", Def("Ubuntu i386")),
       Group("elif", "OS_LINUX",  Def("Linux")),
       Group("elif", "OS_MACOSX", Def("MacOSX x64")),
       Group("else", "",          Def("")) >>

\* the OS_UBUNTU group opened by #if instead of #elif
ConditionalSection_IndependentIf ==
    << Group("if",   "OS_WIN32",  Def("Windows XP x86")),
       Group("if",   "OS_UBUNTU", Def("Ubuntu i386")),
       Group("elif", "OS_LINUX",  Def("Linux")),
       Group("elif", "OS_MACOSX", Def("MacOSX x64")),
       Group("else", "",          ErrorDirective) >>

\* the OS_LINUX group tested before the OS_UBUNTU group
ConditionalSection_LinuxFirst ==
    << Group("if",   "OS_WIN32",  Def("Windows XP x86")),
       Group("elif", "OS_LINUX",  Def("Linux")),
       Group("elif", "OS_UBUNTU", Def("Ubuntu i386")),
       Group("elif", "OS_MACOSX", Def("MacOSX x64")),
       Group("else", "",          ErrorDirective) >>

\* the literals of the OS_LINUX and OS_MACOSX groups exchanged
ConditionalSection_SwappedLabels ==
    << Group("if",   "OS_WIN32",  Def("Windows XP x86")),
       Group("elif", "OS_UBUNTU", Def("Ubuntu i386")),
       Group("elif", "OS_LINUX",  Def("MacOSX x64")),
       Group("elif", "OS_MACOSX", Def("Linux")),
       Group("else", "",          ErrorDirective) >>

\* #if defined OS_WIN32 ... #elif defined OS_UBUNTU ... #else #error #endif
ConditionalSection ==
    << Group("if",   "OS_WIN32",  Def("Windows XP x86")),
       Group("elif", "OS_UBUNTU", Def("Ubuntu i386")),
       Group("elif", "OS_LINUX",  Def("Linux")),
       Group("elif", "OS_MACOSX", Def("MacOSX x64")),
       Group("else", "",          ErrorDirective) >>

\* Whether group g is the one the preprocessor keeps, given that a group of
\* the same #if chain has (taken) or has not been kept already.
GroupSelected(g, taken, defined) ==
    CASE g.dir = "if"   -> g.macro \in defined
      [] g.dir = "elif" -> ~taken /\ g.macro \in defined
      [] g.dir = "else" -> ~taken

RECURSIVE PreprocessFrom(_, _, _, _, _)
PreprocessFrom(section, i, taken, defined, out) ==
    IF i > Len(section) THEN out
    ELSE LET g   == section[i]
             sel == GroupSelected(g, taken, defined)
             nxt == IF ~sel THEN out
                    ELSE IF g.body.kind = "error"
                         THEN [out EXCEPT !.error = TRUE]
                         ELSE [out EXCEPT !.defs = Append(@, g.body.label)]
             tk  == IF g.dir = "if" THEN sel ELSE taken \/ sel
         IN PreprocessFrom(section, i + 1, tk, defined, nxt)

\* The definitions of PLATFORM_NAME left in the translation unit, and
\* whether #error was reached.
Preprocess(defined) ==
    PreprocessFrom(ConditionalSection, 1, FALSE, defined, [defs |-> << >>, error |-> FALSE])

NotPreprocessed == [defs |-> << >>, error |-> FALSE]
NoImage == "<no binary>"

\* The build succeeds when #error is not reached and the translation unit
\* defines PLATFORM_NAME exactly once.
BuildSucceeds(r) == ~r.error /\ Len(r.defs) = 1

Build ==
    /\ phase = "config"
    /\ LET r == Preprocess(flags)
       IN /\ pp' = r
          /\ IF BuildSucceeds(r)
             THEN phase' = "built" /\ image' = r.defs[1]
             ELSE phase' = "build_failed" /\ image' = NoImage
    /\ UNCHANGED <<flags, APPVERSION, PLATFORM_NAME, inited, threads, reads>>

-----------------------------------------------------------------------------
(* The objects: lines 6 and 8-15 *)

APPVERSION_N == 4

\* = { 10, 2, 7 }
AppVersionInitializer_Short == <<10, 2, 7>>

\* = { 10, 2, 7, 3 }
AppVersionInitializer == <<10, 2, 7, 3>>

Int32 == (-2147483647 - 1) .. 2147483647

\* Aggregate initialization of boost::array<boost::int32_t, N>: the listed
\* elements, the remaining ones zero.
AggregateInit(n, list) ==
    [i \in 1..n |-> IF i <= Len(list) THEN list[i] ELSE 0]

StrLen(s) ==
    CASE s = "Windows XP x86" -> 14
      [] s = "Ubuntu i386"    -> 11
      [] s = "Linux"          -> 5
      [] s = "MacOSX x64"     -> 10
      [] s = ""               -> 0
      [] OTHER                -> 1

NullData == "<null>"

\* No process: the objects do not exist.
AbsentArray  == [state |-> "absent", elems |-> << >>]
AbsentString == [state |-> "absent", size |-> 0, data |-> NullData]

\* Storage of static duration is zero-initialized at load; the lifetime of
\* the std::string has not begun.
ZeroedString == [state |-> "zeroed", size |-> 0, data |-> NullData]

\* std::string(const char*)
ConstructString(literal) ==
    [state |-> "constructed", size |-> StrLen(literal), data |-> literal]

ThisTU == 0
OtherTUs == 1..NumOtherTUs
TUs == {ThisTU} \cup OtherTUs
Threads == 1..NumThreads

IdleThread == [pc |-> "idle", av |-> << >>, size |-> 0]

\* Process load: APPVERSION has a constant initializer and is initialized
\* statically; PLATFORM_NAME is zero-initialized and awaits its constructor.
Load ==
    /\ phase = "built"
    /\ phase' = "static_init"
    /\ APPVERSION' = [state |-> "initialized",
                      elems |-> AggregateInit(APPVERSION_N, AppVersionInitializer)]
    /\ PLATFORM_NAME' = ZeroedString
    /\ UNCHANGED <<flags, pp, image, inited, threads, reads>>

Running == phase \in {"static_init", "main"}

\* The dynamic initializer of this translation unit: PLATFORM_NAME's constructor.
DynInitThisTU ==
    /\ Running
    /\ ThisTU \notin inited
    /\ PLATFORM_NAME' = ConstructString(image)
    /\ inited' = inited \cup {ThisTU}
    /\ UNCHANGED <<flags, phase, pp, image, APPVERSION, threads, reads>>

\* this translation unit's initializer left to run after main has started
MainMayStart_Deferred == OtherTUs \subseteq inited

\* Objects of static storage duration are initialized before main is entered.
MainMayStart == inited = TUs

EnterMain ==
    /\ phase = "static_init"
    /\ MainMayStart
    /\ phase' = "main"
    /\ UNCHANGED <<flags, pp, image, APPVERSION, PLATFORM_NAME, inited, threads, reads>>

-----------------------------------------------------------------------------
(* The consumers: initializers of other translation units, threads of main *)

ArrayRead(by, at, elems) ==
    [by |-> by, what |-> "APPVERSION", at |-> at,
     elems |-> elems, size |-> 0, data |-> ""]

StringRead(by, at, size, data) ==
    [by |-> by, what |-> "PLATFORM_NAME", at |-> at,
     elems |-> << >>, size |-> size, data |-> data]

\* Where in the process run an initializer's read falls.
InitPoint == IF ThisTU \in inited THEN "after_init" ELSE "before_init"

\* The dynamic initializer of another translation unit reads both constants.
\* The order of initialization across translation units is unspecified.  A
\* read of PLATFORM_NAME before its constructor has run is undefined: it
\* sees the zero-filled storage as an empty string, or crashes the process.
OtherTUInit(tu) ==
    /\ phase = "static_init"
    /\ tu \notin inited
    /\ inited' = inited \cup {tu}
    /\ \/ /\ reads' = reads \cup
                {ArrayRead("initializer", InitPoint, APPVERSION.elems),
                 StringRead("initializer", InitPoint, PLATFORM_NAME.size, PLATFORM_NAME.data)}
          /\ phase' = phase
       \/ /\ PLATFORM_NAME.state = "zeroed"
          /\ reads' = reads \cup
                {ArrayRead("initializer", InitPoint, APPVERSION.elems)}
          /\ phase' = "crashed"
    /\ UNCHANGED <<flags, pp, image, APPVERSION, PLATFORM_NAME, threads>>

\* A thread starts a read of APPVERSION (element by element) or of
\* PLATFORM_NAME (its size, then its characters), without synchronization.
ThreadBegin(t, what) ==
    /\ phase = "main"
    /\ threads[t].pc = "idle"
    /\ threads' = [threads EXCEPT ![t] =
                     [pc |-> IF what = "APPVERSION" THEN "load_elem" ELSE "load_size",
                      av |-> << >>, size |-> 0]]
    /\ UNCHANGED <<flags, phase, pp, image, APPVERSION, PLATFORM_NAME, inited, reads>>

ThreadLoadElem(t) ==
    /\ phase = "main"
    /\ threads[t].pc = "load_elem"
    /\ LET got == Append(threads[t].av, APPVERSION.elems[Len(threads[t].av) + 1])
       IN IF Len(got) = APPVERSION_N
          THEN /\ reads' = reads \cup {ArrayRead("thread", "main", got)}
               /\ threads' = [threads EXCEPT ![t] = IdleThread]
          ELSE /\ reads' = reads
               /\ threads' = [threads EXCEPT ![t].av = got]
    /\ UNCHANGED <<flags, phase, pp, image, APPVERSION, PLATFORM_NAME, inited>>

ThreadLoadSize(t) ==
    /\ phase = "main"
    /\ threads[t].pc = "load_size"
    /\ threads' = [threads EXCEPT ![t].pc = "load_data", ![t].size = PLATFORM_NAME.size]
    /\ UNCHANGED <<flags, phase, pp, image, APPVERSION, PLATFORM_NAME, inited, reads>>

ThreadLoadData(t) ==
    /\ phase = "main"
    /\ threads[t].pc = "load_data"
    /\ reads' = reads \cup {StringRead("thread", "main", threads[t].size, PLATFORM_NAME.data)}
    /\ threads' = [threads EXCEPT ![t] = IdleThread]
    /\ UNCHANGED <<flags, phase, pp, image, APPVERSION, PLATFORM_NAME, inited>>

-----------------------------------------------------------------------------
(* The specification *)

Init ==
    /\ flags \in SUBSET PlatformFlags
    /\ phase = "config"
    /\ pp = NotPreprocessed
    /\ image = NoImage
    /\ APPVERSION = AbsentArray
    /\ PLATFORM_NAME = AbsentString
    /\ inited = {}
    /\ threads = [t \in Threads |-> IdleThread]
    /\ reads = {}

Next ==
    \/ Build
    \/ Load
    \/ DynInitThisTU
    \/ \E tu \in OtherTUs : OtherTUInit(tu)
    \/ EnterMain
    \/ \E t \in Threads : \E what \in {"APPVERSION", "PLATFORM_NAME"} : ThreadBegin(t, what)
    \/ \E t \in Threads : ThreadLoadElem(t)
    \/ \E t \in Threads : ThreadLoadSize(t)
    \/ \E t \in Threads : ThreadLoadData(t)

Spec == Init /\ [][Next]_vars

TypeOK ==
    /\ flags \subseteq PlatformFlags
    /\ phase \in {"config", "build_failed", "built", "static_init", "main", "crashed"}
    /\ inited \subseteq TUs
    /\ APPVERSION.state \in {"absent", "initialized"}
    /\ PLATFORM_NAME.state \in {"absent", "zeroed", "constructed"}
    /\ \A i \in DOMAIN APPVERSION.elems : APPVERSION.elems[i] \in Int32

-----------------------------------------------------------------------------
(* Properties *)

\* The label each flag stands for.
ExpectedLabel(f) ==
    CASE f = "OS_WIN32"  -> "Windows XP x86"
      [] f = "OS_UBUNTU" -> "Ubuntu i386"
      [] f = "OS_LINUX"  -> "Linux"
      [] f = "OS_MACOSX" -> "MacOSX x64"

FixedLabels == {"Windows XP x86", "Ubuntu i386", "Linux", "MacOSX x64"}

ExpectedVersion == <<10, 2, 7, 3>>

Priority(f) ==
    CASE f = "OS_WIN32"  -> 1
      [] f = "OS_UBUNTU" -> 2
      [] f = "OS_LINUX"  -> 3
      [] f = "OS_MACOSX" -> 4

Highest(fl) == CHOOSE f \in fl : \A g \in fl : Priority(f) <= Priority(g)

Built == phase \in {"built", "static_init", "main", "crashed"}
Loaded == phase \in {"static_init", "main", "crashed"}

\* A read made at a point of the run that follows this translation unit's
\* initialization.
AfterInit(r) == r.at # "before_init"

\* C1: with exactly one platform flag defined the build succeeds, and
\* PLATFORM_NAME, once constructed and whenever read after that, is the
\* non-empty label of that flag.
C1_SingleFlagLabel ==
    \A f \in PlatformFlags :
        flags = {f} =>
            /\ phase # "build_failed"
            /\ phase # "config" => Built /\ image = ExpectedLabel(f) /\ image # ""
            /\ PLATFORM_NAME.state = "constructed" =>
                   /\ PLATFORM_NAME.data = ExpectedLabel(f)
                   /\ PLATFORM_NAME.size > 0
            /\ \A r \in reads :
                   r.what = "PLATFORM_NAME" /\ AfterInit(r) =>
                       r.data = ExpectedLabel(f) /\ r.size > 0

C1_Witness ==
    /\ flags = {"OS_MACOSX"}
    /\ phase = "main"
    /\ PLATFORM_NAME.data = "MacOSX x64"
    /\ \E r \in reads : r.what = "PLATFORM_NAME" /\ r.by = "thread"

\* C2: with no platform flag defined the build ends in the #error, no
\* binary and no process exist, and no PLATFORM_NAME value is ever produced
\* or read.
C2_NoFlagBuildFails ==
    flags = {} =>
        /\ phase \in {"config", "build_failed"}
        /\ phase = "build_failed" => pp.error /\ pp.defs = << >>
        /\ image = NoImage
        /\ PLATFORM_NAME.state = "absent"
        /\ APPVERSION.state = "absent"
        /\ reads = {}

C2_Witness == flags = {} /\ phase = "build_failed" /\ pp.error

\* C3: in every process of a build that succeeded, whatever the flags,
\* APPVERSION holds exactly 4 non-negative integers, (10, 2, 7, 3), and
\* every read of it returns them.
C3_AppVersion ==
    /\ Built /\ Loaded =>
           /\ APPVERSION.state = "initialized"
           /\ Len(APPVERSION.elems) = 4
           /\ \A i \in 1..Len(APPVERSION.elems) : APPVERSION.elems[i] \in Nat
           /\ APPVERSION.elems = ExpectedVersion
    /\ \A r \in reads : r.what = "APPVERSION" => r.elems = ExpectedVersion

C3_Witness ==
    /\ flags = {"OS_UBUNTU", "OS_MACOSX"}
    /\ phase = "main"
    /\ \E r \in reads : r.what = "APPVERSION" /\ r.by = "thread"

\* C4: every read of either constant, the reads made by the initializers
\* of other translation units included, observes the fully initialized
\* value, and no such read brings the process down.
C4_InitializedBeforeAnyRead ==
    /\ phase # "crashed"
    /\ \A r \in reads :
           IF r.what = "APPVERSION"
           THEN r.elems = AggregateInit(APPVERSION_N, AppVersionInitializer)
           ELSE r.size = StrLen(image) /\ r.data = image

\* C5: once initialized, neither constant is written by any step (a read
\* included), and any two reads of the same constant made after its
\* initialization return equal values.
C5_Immutable ==
    /\ [][/\ APPVERSION.state = "initialized" => APPVERSION' = APPVERSION
          /\ PLATFORM_NAME.state = "constructed" => PLATFORM_NAME' = PLATFORM_NAME]_vars
    /\ [](\A r1, r2 \in reads :
              r1.what = r2.what /\ AfterInit(r1) /\ AfterInit(r2) =>
                  r1.elems = r2.elems /\ r1.size = r2.size /\ r1.data = r2.data)

C5_Witness ==
    /\ phase = "main"
    /\ \E r1, r2 \in reads :
           /\ r1.what = "PLATFORM_NAME" /\ r2.what = "PLATFORM_NAME"
           /\ r1.by = "initializer" /\ r1.at = "after_init"
           /\ r2.by = "thread"
    /\ \E r1, r2 \in reads :
           /\ r1.what = "APPVERSION" /\ r2.what = "APPVERSION"
           /\ r1.by = "initializer" /\ r2.by = "thread"

\* C6: every read a thread of main completes returns the complete
\* initialized value, and every partly done read holds a prefix of it,
\* whatever the interleaving of the threads.
C6_NoTornRead ==
    /\ \A r \in reads :
           r.by = "thread" =>
               IF r.what = "APPVERSION"
               THEN r.elems = AggregateInit(APPVERSION_N, AppVersionInitializer)
               ELSE r.size = StrLen(image) /\ r.data = image /\ r.size > 0
    /\ \A t \in Threads :
           /\ threads[t].pc = "load_data" => threads[t].size = StrLen(image)
           /\ threads[t].pc = "load_elem" =>
                  \A i \in 1..Len(threads[t].av) :
                      threads[t].av[i] = AppVersionInitializer[i]

C6_Witness ==
    /\ threads[1].pc = "load_data"
    /\ threads[2].pc = "load_elem" /\ Len(threads[2].av) = 2
    /\ \E r \in reads : r.by = "thread" /\ r.what = "PLATFORM_NAME"
    /\ \E r \in reads : r.by = "thread" /\ r.what = "APPVERSION"

\* C7: for each of the 16 subsets of the flags preprocessing yields exactly
\* one outcome: one definition of PLATFORM_NAME with a label of the fixed
\* set, or the #error and no definition; the build fails if and only if
\* the subset is empty.
C7_TotalExclusiveSelection ==
    phase # "config" =>
        /\ \/ pp.error /\ pp.defs = << >>
           \/ ~pp.error /\ Len(pp.defs) = 1 /\ pp.defs[1] \in FixedLabels
        /\ pp.error <=> flags = {}
        /\ phase = "build_failed" <=> flags = {}

C7_Witness ==
    /\ flags = PlatformFlags
    /\ phase = "built"
    /\ pp.defs = <<"Windows XP x86">>

\* C8: with more than one flag defined PLATFORM_NAME is the label of the
\* defined flag that comes first in OS_WIN32, OS_UBUNTU, OS_LINUX,
\* OS_MACOSX, and the label of no other defined flag.
C8_PriorityOrder ==
    Cardinality(flags) > 1 /\ phase # "config" =>
        /\ Built
        /\ image = ExpectedLabel(Highest(flags))
        /\ \A g \in flags \ {Highest(flags)} : image # ExpectedLabel(g)
        /\ PLATFORM_NAME.state = "constructed" =>
               PLATFORM_NAME.data = ExpectedLabel(Highest(flags))

C8_Witness ==
    /\ flags = {"OS_UBUNTU", "OS_LINUX"}
    /\ PLATFORM_NAME.state = "constructed"
    /\ PLATFORM_NAME.data = "Ubuntu i386"

====
